---- MODULE Spec2Model ----
(***************************************************************************)
(* External natural merge sort (external_sort/sort.py, reader.py,          *)
(* threads.py): the scheduler sort_hub, the pass controller split_series   *)
(* with its nested _natural_merge, the Reader's file handling and the      *)
(* Threads status table.                                                   *)
(*                                                                         *)
(* Files are .txt files sorted under the integer type tag 'i'.  A line of  *)
(* a file is a number: BadLine is a non-numeric text, 1, 2, ... are the    *)
(* canonical decimal literals, AltBase + v is a non-canonical literal of v *)
(* (such as "01" for 1).  Path 0 is the output path, paths 1..NJobs are    *)
(* the source paths, in the order of the src list.  The .csv files of the  *)
(* specification SpecCsv are described with their pure functions.          *)
(***************************************************************************)
EXTENDS Integers, Sequences, FiniteSets, TLC

(* ---------------------------- bounds ----------------------------------- *)
NJobs == 3
MaxLen == 4
MaxVal == 3
MaxPasses == 6
MaxRows == 3
MaxKey == 3

(* --------------------------- encodings --------------------------------- *)
BadLine == 0
AltBase == 100
None == 0 - 1
OutPath == 0
Paths == 0..NJobs

(* ------------------------ pure functions ------------------------------- *)

\* sort.py:125  the default comparator
cmp_ignores_reverse(x, y, r) == x <= y
cmp_strict(x, y, r) == IF r THEN x > y ELSE x < y
cmp(x, y, r) == IF r THEN x >= y ELSE x <= y

\* reader.py:235-236  int(item) succeeds
CanCast(line) == line # BadLine
\* reader.py:235-236  int(item)
Cast(line) == IF line > AltBase THEN line - AltBase ELSE line
\* reader.py:204  str(elem) + '\n'
Str(elem) == elem

CastAll(lines) == [i \in DOMAIN lines |-> Cast(lines[i])]
AllCastable(lines) == \A i \in DOMAIN lines : CanCast(lines[i])

\* sort.py:148-150
remain_all_drops_cur(cur, gen) == [i \in DOMAIN gen |-> Str(Cast(gen[i]))]
remain_all(cur, gen) == <<Str(cur)>> \o [i \in DOMAIN gen |-> Str(Cast(gen[i]))]

\* sort.py:172-174  index of the first record of gen that ends the drain
SeriesEnd(cur, gen, r) ==
    IF \E i \in DOMAIN gen : ~cmp(cur, Cast(gen[i]), r)
    THEN CHOOSE i \in DOMAIN gen :
            /\ ~cmp(cur, Cast(gen[i]), r)
            /\ \A k \in 1..(i - 1) : cmp(cur, Cast(gen[k]), r)
    ELSE Len(gen) + 1

\* sort.py:152-176
remain_series_keeps_await(cur, gen, r) ==
    LET e == SeriesEnd(cur, gen, r) IN
    [wrote |-> <<Str(cur)>> \o [i \in 1..(e - 1) |-> Str(Cast(gen[i]))],
     buf   |-> IF e <= Len(gen) THEN Cast(gen[e]) ELSE None,
     gen   |-> SubSeq(gen, e + 1, Len(gen)),
     await |-> TRUE]
remain_series(cur, gen, r) ==
    LET e == SeriesEnd(cur, gen, r) IN
    [wrote |-> <<Str(cur)>> \o [i \in 1..(e - 1) |-> Str(Cast(gen[i]))],
     buf   |-> IF e <= Len(gen) THEN Cast(gen[e]) ELSE None,
     gen   |-> SubSeq(gen, e + 1, Len(gen)),
     await |-> FALSE]

\* sort.py:187-194  rule 1: the run of b has ended, drain the run of c
drain_c(m, r) ==
    LET s == remain_series(m.c_buf, m.c_gen, r) IN
    IF s.buf # None
    THEN [m |-> [m EXCEPT !.c_buf = s.buf, !.c_gen = s.gen,
                          !.b_await = s.await],
          wrote |-> s.wrote, stop |-> FALSE]
    ELSE [m |-> [m EXCEPT !.c_buf = None, !.c_gen = <<>>, !.b_gen = <<>>,
                          !.b_await = s.await],
          wrote |-> s.wrote \o remain_all(m.b_buf, m.b_gen), stop |-> TRUE]

\* sort.py:195-202  rule 2: the run of c has ended, drain the run of b
drain_b(m, r) ==
    LET s == remain_series(m.b_buf, m.b_gen, r) IN
    IF s.buf # None
    THEN [m |-> [m EXCEPT !.b_buf = s.buf, !.b_gen = s.gen,
                          !.c_await = s.await],
          wrote |-> s.wrote, stop |-> FALSE]
    ELSE [m |-> [m EXCEPT !.b_buf = None, !.b_gen = <<>>, !.c_gen = <<>>,
                          !.c_await = s.await],
          wrote |-> s.wrote \o remain_all(m.c_buf, m.c_gen), stop |-> TRUE]

\* sort.py:203-222  rule 3: write the favoured buffer, advance its tape
compare_step(m, r) ==
    IF cmp(m.b_buf, m.c_buf, r)
    THEN IF m.b_gen = <<>>
         THEN [m |-> [m EXCEPT !.c_gen = <<>>],
               wrote |-> <<Str(m.b_buf)>> \o remain_all(m.c_buf, m.c_gen),
               stop |-> TRUE]
         ELSE LET nb == Cast(Head(m.b_gen)) IN
              [m |-> [m EXCEPT !.b_buf = nb, !.b_gen = Tail(m.b_gen),
                               !.b_await = IF ~cmp(m.b_buf, nb, r)
                                           THEN TRUE ELSE m.b_await],
               wrote |-> <<Str(m.b_buf)>>, stop |-> FALSE]
    ELSE IF m.c_gen = <<>>
         THEN [m |-> [m EXCEPT !.b_gen = <<>>],
               wrote |-> <<Str(m.c_buf)>> \o remain_all(m.b_buf, m.b_gen),
               stop |-> TRUE]
         ELSE LET nc == Cast(Head(m.c_gen)) IN
              [m |-> [m EXCEPT !.c_buf = nc, !.c_gen = Tail(m.c_gen),
                               !.c_await = IF ~cmp(m.c_buf, nc, r)
                                           THEN TRUE ELSE m.c_await],
               wrote |-> <<Str(m.c_buf)>>, stop |-> FALSE]

\* sort.py:186-222  one iteration of the merge loop
merge_iteration(m, r) ==
    IF m.b_await THEN drain_c(m, r)
    ELSE IF m.c_await THEN drain_b(m, r)
    ELSE compare_step(m, r)

\* sort.py:243-247  one iteration of the split loop: the tape index and the
\* splitted flag after reading elem
split_flip_always(prev, elem, w, sp, r) == [which |-> 1 - w, splitted |-> TRUE]
split_flip(prev, elem, w, sp, r) ==
    IF ~cmp(prev, elem, r)
    THEN [which |-> 1 - w, splitted |-> TRUE]
    ELSE [which |-> w, splitted |-> sp]

\* sort.py:242-247  the split loop over the records left in the source
RECURSIVE split_scan(_, _, _, _, _, _)
split_scan(recs, prev, w, sp, tapes, r) ==
    IF recs = <<>>
    THEN [tapes |-> tapes, splitted |-> sp]
    ELSE LET elem == Cast(Head(recs))
             f == split_flip(prev, elem, w, sp, r)
         IN split_scan(Tail(recs), elem, f.which, f.splitted,
                       [tapes EXCEPT ![f.which + 1] = Append(@, Str(elem))], r)

\* sort.py:238-247  the two tapes and the splitted flag after one scan of a
\* non-empty well-typed file
split_tapes(lines, r) ==
    split_scan(Tail(lines), Cast(Head(lines)), 0, FALSE,
               <<<<Str(Cast(Head(lines)))>>, <<>>>>, r)

\* sort.py:186-222  the merge loop, from the state m to its last iteration
RECURSIVE merge_loop(_, _, _)
merge_loop(m, out, r) ==
    LET res == merge_iteration(m, r) IN
    IF res.stop THEN out \o res.wrote
    ELSE merge_loop(res.m, out \o res.wrote, r)

\* sort.py:178-222  the file _natural_merge writes from two non-empty tapes
natural_merge(tapes, r) ==
    merge_loop([b_buf |-> Cast(Head(tapes[1])), c_buf |-> Cast(Head(tapes[2])),
                b_await |-> FALSE, c_await |-> FALSE,
                b_gen |-> Tail(tapes[1]), c_gen |-> Tail(tapes[2])], <<>>, r)

\* sort.py:226-249  split, merge and recurse until a scan finds no break;
\* fuel bounds the number of merge passes
RECURSIVE sort_passes(_, _, _)
sort_passes(lines, r, fuel) ==
    LET s == split_tapes(lines, r) IN
    IF ~s.splitted \/ fuel = 0 THEN CastAll(lines)
    ELSE sort_passes(natural_merge(s.tapes, r), r, fuel - 1)

\* the records of the file split_series leaves for a non-empty well-typed
\* file
split_series_records(lines, r) == sort_passes(lines, r, MaxPasses + 1)

(* ------------------- pure functions, .csv files ------------------------- *)
\* A line of a .csv file is a tuple of fields.  The first line of a file
\* is its header, a tuple of column names (ColId, ...); a data row is a
\* tuple of field texts, encoded like the lines of a .txt file.  Every
\* type tag is 'i'.  A buffer that holds no row is the empty tuple.

\* reader.py:325-328  the positions, in file order, of the columns of
\* header whose name is in keys; reader.py:320-321  no keys: every column
key_columns(header, keys) ==
    LET S == {i \in DOMAIN header :
                keys = <<>> \/ \E j \in DOMAIN keys : keys[j] = header[i]}
    IN [j \in 1..Cardinality(S) |->
          CHOOSE i \in S : Cardinality({k \in S : k < i}) = j - 1]

\* reader.py:310-312  the number of type tags after one tag was spread over
\* the supplied keys
dtype_len(keys, ntags) == IF ntags = 1 THEN Len(keys) ELSE ntags

\* reader.py:310-317  the tag count differs from the count of supplied keys
count_mismatch(keys, ntags) ==
    ntags # 1 /\ ntags > 0 /\ keys # <<>> /\ ntags # Len(keys)

\* reader.py:324-329  the exception of reading one row: dtype[i] raises
\* IndexError past the last tag, int() raises ValueError on a text field;
\* the first one in column order wins
read_error(row, ks, n) ==
    LET bad == {j \in DOMAIN ks : j > n \/ ~CanCast(row[ks[j]])}
        first == CHOOSE j \in bad : \A k \in bad : j <= k
    IN IF bad = {} THEN "none"
       ELSE IF first > n THEN "index" ELSE "content"

\* reader.py:324-329  to_yield: the cast key fields of a row
to_yield(row, ks) == [j \in DOMAIN ks |-> Cast(row[ks[j]])]

\* the order of Python lists: x <= y
list_le(x, y) ==
    \/ /\ Len(x) <= Len(y)
       /\ \A i \in DOMAIN x : x[i] = y[i]
    \/ \E i \in DOMAIN x :
          /\ i \in DOMAIN y
          /\ \A k \in 1..(i - 1) : x[k] = y[k]
          /\ x[i] < y[i]

\* sort.py:125  the default comparator, on the key lists of two rows
csv_cmp_ignores_reverse(x, y, r, ks) == list_le(to_yield(x, ks), to_yield(y, ks))
csv_cmp(x, y, r, ks) ==
    IF r THEN list_le(to_yield(y, ks), to_yield(x, ks))
    ELSE list_le(to_yield(x, ks), to_yield(y, ks))

\* reader.py:205-211  write_line: the content and the has_header list after
\* one row was written to the file f
write_line_header_each_row(hh, header, f, content, row) ==
    [content |-> content \o <<header, row>>, has_header |-> hh \cup {f}]
write_line(hh, header, f, content, row) ==
    [content |-> IF f \in hh THEN Append(content, row)
                 ELSE content \o <<header, row>>,
     has_header |-> hh \cup {f}]

\* reader.py:205-211  write_line, once for each row of rws
RECURSIVE write_lines(_, _, _, _, _)
write_lines(hh, header, f, content, rws) ==
    IF rws = <<>> THEN [content |-> content, has_header |-> hh]
    ELSE LET w == write_line(hh, header, f, content, Head(rws))
         IN write_lines(w.has_header, header, f, w.content, Tail(rws))

\* sort.py:148-150
csv_remain_all(cur, gen) == <<cur>> \o gen

\* sort.py:172-174
csv_series_end(cur, gen, r, ks) ==
    IF \E i \in DOMAIN gen : ~csv_cmp(cur, gen[i], r, ks)
    THEN CHOOSE i \in DOMAIN gen :
            /\ ~csv_cmp(cur, gen[i], r, ks)
            /\ \A k \in 1..(i - 1) : csv_cmp(cur, gen[k], r, ks)
    ELSE Len(gen) + 1

\* sort.py:152-176
csv_remain_series(cur, gen, r, ks) ==
    LET e == csv_series_end(cur, gen, r, ks) IN
    [wrote |-> <<cur>> \o SubSeq(gen, 1, e - 1),
     buf   |-> IF e <= Len(gen) THEN gen[e] ELSE <<>>,
     gen   |-> SubSeq(gen, e + 1, Len(gen)),
     await |-> FALSE]

\* sort.py:187-194
csv_drain_c(m, r, ks) ==
    LET s == csv_remain_series(m.c_buf, m.c_gen, r, ks) IN
    IF s.buf # <<>>
    THEN [m |-> [m EXCEPT !.c_buf = s.buf, !.c_gen = s.gen,
                          !.b_await = s.await],
          wrote |-> s.wrote, stop |-> FALSE]
    ELSE [m |-> [m EXCEPT !.c_buf = <<>>, !.c_gen = <<>>, !.b_gen = <<>>,
                          !.b_await = s.await],
          wrote |-> s.wrote \o csv_remain_all(m.b_buf, m.b_gen),
          stop |-> TRUE]

\* sort.py:195-202
csv_drain_b(m, r, ks) ==
    LET s == csv_remain_series(m.b_buf, m.b_gen, r, ks) IN
    IF s.buf # <<>>
    THEN [m |-> [m EXCEPT !.b_buf = s.buf, !.b_gen = s.gen,
                          !.c_await = s.await],
          wrote |-> s.wrote, stop |-> FALSE]
    ELSE [m |-> [m EXCEPT !.b_buf = <<>>, !.b_gen = <<>>, !.c_gen = <<>>,
                          !.c_await = s.await],
          wrote |-> s.wrote \o csv_remain_all(m.c_buf, m.c_gen),
          stop |-> TRUE]

\* sort.py:203-222
csv_compare_step(m, r, ks) ==
    IF csv_cmp(m.b_buf, m.c_buf, r, ks)
    THEN IF m.b_gen = <<>>
         THEN [m |-> [m EXCEPT !.c_gen = <<>>],
               wrote |-> <<m.b_buf>> \o csv_remain_all(m.c_buf, m.c_gen),
               stop |-> TRUE]
         ELSE LET nb == Head(m.b_gen) IN
              [m |-> [m EXCEPT !.b_buf = nb, !.b_gen = Tail(m.b_gen),
                               !.b_await = IF ~csv_cmp(m.b_buf, nb, r, ks)
                                           THEN TRUE ELSE m.b_await],
               wrote |-> <<m.b_buf>>, stop |-> FALSE]
    ELSE IF m.c_gen = <<>>
         THEN [m |-> [m EXCEPT !.b_gen = <<>>],
               wrote |-> <<m.c_buf>> \o csv_remain_all(m.b_buf, m.b_gen),
               stop |-> TRUE]
         ELSE LET nc == Head(m.c_gen) IN
              [m |-> [m EXCEPT !.c_buf = nc, !.c_gen = Tail(m.c_gen),
                               !.c_await = IF ~csv_cmp(m.c_buf, nc, r, ks)
                                           THEN TRUE ELSE m.c_await],
               wrote |-> <<m.c_buf>>, stop |-> FALSE]

\* sort.py:186-222
csv_merge_iteration(m, r, ks) ==
    IF m.b_await THEN csv_drain_c(m, r, ks)
    ELSE IF m.c_await THEN csv_drain_b(m, r, ks)
    ELSE csv_compare_step(m, r, ks)

\* sort.py:243-247
csv_split_flip(prev, elem, w, sp, r, ks) ==
    IF ~csv_cmp(prev, elem, r, ks)
    THEN [which |-> 1 - w, splitted |-> TRUE]
    ELSE [which |-> w, splitted |-> sp]

\* sort.py:242-247  the data rows of the two tapes after the split loop
RECURSIVE csv_split_scan(_, _, _, _, _, _, _)
csv_split_scan(rws, prev, w, sp, tapes, r, ks) ==
    IF rws = <<>>
    THEN [tapes |-> tapes, splitted |-> sp]
    ELSE LET f == csv_split_flip(prev, Head(rws), w, sp, r, ks)
         IN csv_split_scan(Tail(rws), Head(rws), f.which, f.splitted,
                           [tapes EXCEPT ![f.which + 1] = Append(@, Head(rws))],
                           r, ks)

\* sort.py:238-247
csv_split_tapes(rws, r, ks) ==
    csv_split_scan(Tail(rws), Head(rws), 0, FALSE, <<<<Head(rws)>>, <<>>>>,
                   r, ks)

\* sort.py:186-222
RECURSIVE csv_merge_loop(_, _, _, _)
csv_merge_loop(m, out, r, ks) ==
    LET res == csv_merge_iteration(m, r, ks) IN
    IF res.stop THEN out \o res.wrote
    ELSE csv_merge_loop(res.m, out \o res.wrote, r, ks)

\* sort.py:178-222
csv_natural_merge(tapes, r, ks) ==
    csv_merge_loop([b_buf |-> Head(tapes[1]), c_buf |-> Head(tapes[2]),
                    b_await |-> FALSE, c_await |-> FALSE,
                    b_gen |-> Tail(tapes[1]), c_gen |-> Tail(tapes[2])],
                   <<>>, r, ks)

\* sort.py:226-249
RECURSIVE csv_sort_passes(_, _, _, _)
csv_sort_passes(rws, r, ks, fuel) ==
    LET s == csv_split_tapes(rws, r, ks) IN
    IF ~s.splitted \/ fuel = 0 THEN rws
    ELSE csv_sort_passes(csv_natural_merge(s.tapes, r, ks), r, ks, fuel - 1)

\* the data rows of the file split_series leaves for the well-typed data
\* rows rws, at least one
csv_split_series_rows(rws, r, ks) == csv_sort_passes(rws, r, ks, MaxPasses + 1)

(* ----------------------------- state ----------------------------------- *)
VARIABLES
    args,       \* sort_hub's arguments: n = len(src), output, nflows, reverse
    hub_pc,     \* position of the main thread in sort_hub
    bw,         \* cursor of the start loop of Threads.bound_workers
    tasks,      \* Threads.tasks: "absent", "False", "Thread" or "True"
    thr,        \* state of the Thread object stored in tasks
    files,      \* content of each path on disk
    exists,     \* the paths that exist on disk
    tempDir,    \* the directory "temp" exists
    pc,         \* position of each split_series job, keyed by its src
    rdr,        \* the job's Reader
    tmp,        \* content of the job's two tapes (rdr.tmp_path)
    onDisk,     \* the job's tapes exist on disk
    rows,       \* lines the job's row_generator has not yielded yet
    buf,        \* split_series: buf
    which,      \* split_series: which
    splitted,   \* split_series: splitted
    mrg,        \* the locals of _natural_merge
    err,        \* the exception that ended the job, or "none"
    orig,       \* history: the lines of the job's source before its sort
    passIn,     \* history: the lines the job's current pass read
    passes,     \* history: merge passes completed by the job (saturating)
    doneCount,  \* history: calls of Threads.done for the key (saturating)
    scans       \* history: split scans started by the job (saturating)

vars == <<args, hub_pc, bw, tasks, thr, files, exists, tempDir, pc, rdr, tmp,
          onDisk, rows, buf, which, splitted, mrg, err, orig, passIn,
          passes, doneCount, scans>>

hubVars == <<args, hub_pc, bw>>
scanVars == <<rows, buf, which, splitted>>
histVars == <<orig, passIn, passes, doneCount, scans>>

(* --------------------------- Threads ----------------------------------- *)
Keys(t) == {k \in Paths : t[k] # "absent"}
Min(S) == CHOOSE x \in S : \A y \in S : x <= y

\* threads.py:30-41  first key, in insertion order, whose status is False
get_free_not_running(t) ==
    IF \E k \in Keys(t) : t[k] # "Thread"
    THEN Min({k \in Keys(t) : t[k] # "Thread"}) ELSE None
get_free(t) ==
    IF \E k \in Keys(t) : t[k] = "False"
    THEN Min({k \in Keys(t) : t[k] = "False"}) ELSE None

\* threads.py:43-54  a Thread object is truthy: only False is "not done"
all_done(t) == \A k \in Keys(t) : t[k] # "False"

\* threads.py:56-69
workers_minus_one(t) == Cardinality({k \in Keys(t) : t[k] = "Thread"}) - 1
workers(t) == Cardinality({k \in Keys(t) : t[k] = "Thread"})

\* threads.py:87-95
done(t, task) == [t EXCEPT ![task] = "True"]

(* ---------------------------- Reader ------------------------------------ *)
\* reader.py:67-100
NewReader_drops_out(src, out) ==
    [src_path |-> src, out_path |-> None, first_iteration |-> TRUE,
     tmp_files |-> "none", out_file |-> "none",
     header_csv |-> <<>>, has_header |-> {}]
NewReader(src, out) ==
    [src_path |-> src, out_path |-> out, first_iteration |-> TRUE,
     tmp_files |-> "none", out_file |-> "none",
     header_csv |-> <<>>, has_header |-> {}]

\* reader.py:154-161
close_all(r) ==
    [r EXCEPT !.tmp_files = IF @ = "none" THEN "none" ELSE "closed",
              !.out_file = "none"]

\* reader.py:163-171  the tapes on disk after delete_tmp
delete_tmp_keeps(r, od) == od
delete_tmp(r, od) == IF r.tmp_files # "none" THEN FALSE ELSE od

\* reader.py:173-180  rmdir succeeds only on an empty directory
delete_dir_never(dir, od) == dir
delete_dir(dir, od) == IF \A q \in Paths : ~od[q] THEN FALSE ELSE dir

\* sort.py:20-24  the arguments of sort_hub
Total == args.n
SrcList == 1..args.n
Callee == IF Total = 1 THEN 1 ELSE OutPath
Bounded == Total > 1 /\ args.output = None /\ args.nflows # None
                /\ args.nflows < Total

NoMerge == [b_buf |-> None, c_buf |-> None, b_await |-> FALSE,
            c_await |-> FALSE, b_gen |-> <<>>, c_gen |-> <<>>]

\* a thread ends when its target returns or raises
Ended(p) == [thr EXCEPT ![p] = IF @ = "alive" THEN "dead" ELSE @]
Bump(c, cap) == IF c < cap THEN c + 1 ELSE c

(* ------------------------- split_series --------------------------------- *)
\* reader.py:133  open(i, 'w') truncates both tapes
open_tmp_w_appends(tapes) == tapes
open_tmp_w(tapes) == <<<<>>, <<>>>>

\* reader.py:128-132  open_tmp_w: create "temp" if it is absent
open_tmp_check(p) ==
    /\ pc[p] = "call"
    /\ pc' = [pc EXCEPT ![p] = "open"]
    /\ tempDir' = TRUE
    /\ UNCHANGED <<hubVars, tasks, thr, files, exists, rdr, tmp, onDisk,
                   scanVars, mrg, err, histVars>>

\* reader.py:133, sort.py:229-240  open both tapes for writing, open the
\* source, read the first record
split_open(p) ==
    /\ pc[p] = "open"
    /\ IF ~tempDir
       THEN \* open() of a tape raises FileNotFoundError
            /\ pc' = [pc EXCEPT ![p] = "failed"]
            /\ err' = [err EXCEPT ![p] = "nofile"]
            /\ thr' = Ended(p)
            /\ UNCHANGED <<hubVars, tasks, files, exists, tempDir, rdr, tmp,
                           onDisk, scanVars, mrg, histVars>>
       ELSE LET lines == files[rdr[p].src_path]
                r1 == [rdr[p] EXCEPT
                         !.tmp_files = "open", !.out_file = "open",
                         !.src_path = IF rdr[p].first_iteration
                                         /\ rdr[p].out_path # None
                                      THEN rdr[p].out_path ELSE @]
                od1 == [onDisk EXCEPT ![p] = TRUE]
                odT == [onDisk EXCEPT ![p] = delete_tmp(close_all(r1), TRUE)]
            IN
            /\ passIn' = [passIn EXCEPT ![p] = lines]
            /\ scans' = [scans EXCEPT ![p] = Bump(@, MaxPasses + 1)]
            /\ UNCHANGED <<hubVars, tasks, files, exists, mrg, orig, passes,
                           doneCount>>
            /\ IF lines = <<>>
               THEN \* sort.py:234-236  StopIteration: tear_down, return
                    /\ pc' = [pc EXCEPT ![p] = "empty"]
                    /\ rdr' = [rdr EXCEPT ![p] = close_all(r1)]
                    /\ tmp' = [tmp EXCEPT ![p] = <<<<>>, <<>>>>]
                    /\ onDisk' = odT
                    /\ tempDir' = delete_dir(tempDir, odT)
                    /\ thr' = Ended(p)
                    /\ UNCHANGED <<scanVars, err>>
               ELSE IF ~CanCast(Head(lines))
               THEN \* reader.py:275-277  tear_down, raise ValueError
                    /\ pc' = [pc EXCEPT ![p] = "failed"]
                    /\ err' = [err EXCEPT ![p] = "content"]
                    /\ rdr' = [rdr EXCEPT ![p] = close_all(r1)]
                    /\ tmp' = [tmp EXCEPT ![p] = <<<<>>, <<>>>>]
                    /\ onDisk' = odT
                    /\ tempDir' = delete_dir(tempDir, odT)
                    /\ thr' = Ended(p)
                    /\ UNCHANGED scanVars
               ELSE /\ pc' = [pc EXCEPT ![p] = "scan"]
                    /\ rdr' = [rdr EXCEPT ![p] = r1]
                    /\ buf' = [buf EXCEPT ![p] = Cast(Head(lines))]
                    /\ tmp' = [tmp EXCEPT ![p] =
                                 [open_tmp_w(@) EXCEPT ![1] =
                                    Append(@, Str(Cast(Head(lines))))]]
                    /\ which' = [which EXCEPT ![p] = 0]
                    /\ splitted' = [splitted EXCEPT ![p] = FALSE]
                    /\ rows' = [rows EXCEPT ![p] = Tail(lines)]
                    /\ onDisk' = od1
                    /\ UNCHANGED <<tempDir, thr, err>>

\* sort.py:242-247  one iteration of the split loop
scan_step(p) ==
    /\ pc[p] = "scan"
    /\ rows[p] # <<>>
    /\ UNCHANGED <<hubVars, tasks, files, exists, mrg, histVars>>
    /\ IF ~CanCast(Head(rows[p]))
       THEN \* reader.py:275-277  tear_down, raise ValueError
            LET odT == [onDisk EXCEPT
                          ![p] = delete_tmp(close_all(rdr[p]), onDisk[p])]
            IN
            /\ pc' = [pc EXCEPT ![p] = "failed"]
            /\ err' = [err EXCEPT ![p] = "content"]
            /\ rdr' = [rdr EXCEPT ![p] = close_all(@)]
            /\ tmp' = [tmp EXCEPT ![p] = <<<<>>, <<>>>>]
            /\ onDisk' = odT
            /\ tempDir' = delete_dir(tempDir, odT)
            /\ thr' = Ended(p)
            /\ UNCHANGED scanVars
       ELSE LET elem == Cast(Head(rows[p]))
                f == split_flip(buf[p], elem, which[p], splitted[p],
                                args.reverse)
            IN
            /\ which' = [which EXCEPT ![p] = f.which]
            /\ splitted' = [splitted EXCEPT ![p] = f.splitted]
            /\ tmp' = [tmp EXCEPT ![p][f.which + 1] = Append(@, Str(elem))]
            /\ buf' = [buf EXCEPT ![p] = elem]
            /\ rows' = [rows EXCEPT ![p] = Tail(@)]
            /\ UNCHANGED <<pc, rdr, onDisk, tempDir, thr, err>>

\* sort.py:249-268  the source is exhausted: close, then merge or finish
scan_end_merges(p) ==
    /\ pc[p] = "scan"
    /\ rows[p] = <<>>
    /\ pc' = [pc EXCEPT ![p] = "merge_open"]
    /\ rdr' = [rdr EXCEPT ![p] =
                 [close_all(@) EXCEPT !.first_iteration = FALSE]]
    /\ UNCHANGED <<hubVars, scanVars, mrg, err, histVars, tasks, thr, files,
                   exists, tempDir, tmp, onDisk>>
scan_end(p) ==
    /\ pc[p] = "scan"
    /\ rows[p] = <<>>
    /\ UNCHANGED <<hubVars, scanVars, mrg, err, orig, passIn, passes, scans>>
    /\ IF splitted[p]
       THEN /\ pc' = [pc EXCEPT ![p] = "merge_open"]
            /\ rdr' = [rdr EXCEPT ![p] =
                         [close_all(@) EXCEPT !.first_iteration = FALSE]]
            /\ UNCHANGED <<tasks, thr, files, exists, tempDir, tmp, onDisk,
                           doneCount>>
       ELSE LET r1 == close_all(rdr[p])
                copy == r1.first_iteration /\ r1.out_path # None
                odT == [onDisk EXCEPT ![p] = delete_tmp(r1, @)]
            IN
            /\ pc' = [pc EXCEPT ![p] = "done"]
            /\ rdr' = [rdr EXCEPT ![p] = r1]
            /\ files' = IF copy
                        THEN [files EXCEPT ![r1.out_path] = tmp[p][1]]
                        ELSE files
            /\ exists' = IF copy THEN exists \cup {r1.out_path} ELSE exists
            /\ tmp' = [tmp EXCEPT ![p] = <<<<>>, <<>>>>]
            /\ onDisk' = odT
            /\ tempDir' = delete_dir(tempDir, odT)
            /\ tasks' = done(tasks, p)
            /\ doneCount' = [doneCount EXCEPT ![p] = Bump(@, 2)]
            /\ thr' = Ended(p)

\* sort.py:178-184  open the tapes and the destination, read b_buf, c_buf
merge_open(p) ==
    /\ pc[p] = "merge_open"
    /\ rdr' = [rdr EXCEPT ![p].tmp_files = "open", ![p].out_file = "open"]
    /\ files' = [files EXCEPT ![rdr[p].src_path] = <<>>]
    /\ exists' = exists \cup {rdr[p].src_path}
    /\ UNCHANGED <<hubVars, tasks, tempDir, tmp, onDisk, scanVars, histVars>>
    /\ IF tmp[p][1] = <<>> \/ tmp[p][2] = <<>>
       THEN \* next() of an exhausted generator: StopIteration
            /\ pc' = [pc EXCEPT ![p] = "failed"]
            /\ err' = [err EXCEPT ![p] = "stop"]
            /\ thr' = Ended(p)
            /\ UNCHANGED mrg
       ELSE /\ pc' = [pc EXCEPT ![p] = "merge"]
            /\ mrg' = [mrg EXCEPT ![p] =
                         [b_buf |-> Cast(Head(tmp[p][1])),
                          c_buf |-> Cast(Head(tmp[p][2])),
                          b_await |-> FALSE, c_await |-> FALSE,
                          b_gen |-> Tail(tmp[p][1]),
                          c_gen |-> Tail(tmp[p][2])]]
            /\ UNCHANGED <<thr, err>>

\* sort.py:186-226  one iteration of the merge loop; after the last one
\* close_all and the recursive call of split_series
merge_step(p) ==
    /\ pc[p] = "merge"
    /\ LET res == merge_iteration(mrg[p], args.reverse) IN
       /\ files' = [files EXCEPT ![rdr[p].src_path] = @ \o res.wrote]
       /\ IF res.stop
          THEN /\ pc' = [pc EXCEPT ![p] = "call"]
               /\ mrg' = [mrg EXCEPT ![p] = NoMerge]
               /\ rdr' = [rdr EXCEPT ![p] = close_all(@)]
               /\ passes' = [passes EXCEPT ![p] = Bump(@, MaxPasses)]
          ELSE /\ mrg' = [mrg EXCEPT ![p] = res.m]
               /\ UNCHANGED <<pc, rdr, passes>>
    /\ UNCHANGED <<hubVars, tasks, thr, exists, tempDir, tmp, onDisk,
                   scanVars, err, orig, passIn, doneCount, scans>>

JobNext(p) ==
    \/ open_tmp_check(p)
    \/ split_open(p)
    \/ scan_step(p)
    \/ scan_end(p)
    \/ merge_open(p)
    \/ merge_step(p)

(* -------------------- split_series, .csv files -------------------------- *)
\* the entry of Reader.has_header for the file opened by open_out_w; the
\* tapes are entries 0 and 1
OutHandle == 2

\* reader.py:121-133  open_tmp_w: both tapes are created and opened
csv_open_tmp(p) ==
    /\ pc[p] = "open"
    /\ UNCHANGED <<hubVars, tasks, files, exists, tempDir, scanVars, mrg,
                   histVars>>
    /\ IF ~tempDir
       THEN /\ pc' = [pc EXCEPT ![p] = "failed"]
            /\ err' = [err EXCEPT ![p] = "nofile"]
            /\ thr' = Ended(p)
            /\ UNCHANGED <<rdr, tmp, onDisk>>
       ELSE /\ pc' = [pc EXCEPT ![p] = "opened"]
            /\ rdr' = [rdr EXCEPT ![p].tmp_files = "open"]
            /\ tmp' = [tmp EXCEPT ![p] = <<<<>>, <<>>>>]
            /\ onDisk' = [onDisk EXCEPT ![p] = TRUE]
            /\ UNCHANGED <<thr, err>>

\* sort.py:230-240, reader.py:145-152, 362-367, 309-346  open the source,
\* create its generator, read the first row and write it to tape 0
csv_split_open(p) ==
    /\ pc[p] = "opened"
    /\ LET lines == files[rdr[p].src_path]
           fieldnames == IF lines = <<>> THEN <<>> ELSE Head(lines)
           data == IF lines = <<>> THEN <<>> ELSE Tail(lines)
           ks == key_columns(fieldnames, args.keys)
           n == dtype_len(args.keys, args.ntags)
           r1 == [rdr[p] EXCEPT
                    !.out_file = "open", !.has_header = {},
                    !.src_path = IF rdr[p].first_iteration
                                    /\ rdr[p].out_path # None
                                 THEN rdr[p].out_path ELSE @]
           odT == [onDisk EXCEPT ![p] = delete_tmp(close_all(r1), @)]
           e == IF count_mismatch(args.keys, args.ntags) THEN "config"
                ELSE IF data = <<>> THEN "empty"
                ELSE IF read_error(Head(data), ks, n) # "none"
                THEN read_error(Head(data), ks, n)
                ELSE IF /\ r1.header_csv = <<>>
                        /\ \E j \in DOMAIN args.keys :
                              \A i \in DOMAIN fieldnames :
                                  fieldnames[i] # args.keys[j]
                THEN "key"
                ELSE "none"
       IN
       /\ passIn' = [passIn EXCEPT ![p] = lines]
       /\ scans' = [scans EXCEPT ![p] = Bump(@, MaxPasses + 1)]
       /\ UNCHANGED <<hubVars, tasks, files, exists, mrg, orig, passes,
                      doneCount>>
       /\ IF e = "none"
          THEN LET header == IF r1.header_csv = <<>> THEN fieldnames
                             ELSE r1.header_csv
                   t0 == open_tmp_w(tmp[p])
                   w == write_line(r1.has_header, header, 0, t0[1], Head(data))
               IN
               /\ pc' = [pc EXCEPT ![p] = "scan"]
               /\ rdr' = [rdr EXCEPT ![p] =
                            [r1 EXCEPT !.header_csv = header,
                                       !.has_header = w.has_header]]
               /\ buf' = [buf EXCEPT ![p] = Head(data)]
               /\ tmp' = [tmp EXCEPT ![p] = <<w.content, t0[2]>>]
               /\ which' = [which EXCEPT ![p] = 0]
               /\ splitted' = [splitted EXCEPT ![p] = FALSE]
               /\ rows' = [rows EXCEPT ![p] = Tail(data)]
               /\ UNCHANGED <<onDisk, tempDir, thr, err>>
          ELSE IF e = "index"
          THEN \* IndexError is not caught: no tear_down
               /\ pc' = [pc EXCEPT ![p] = "failed"]
               /\ err' = [err EXCEPT ![p] = e]
               /\ rdr' = [rdr EXCEPT ![p] = r1]
               /\ thr' = Ended(p)
               /\ UNCHANGED <<tmp, onDisk, tempDir, scanVars>>
          ELSE \* sort.py:234-236 (no row), reader.py:315-317, 336-338,
               \* 343-345: tear_down, then return or raise
               /\ pc' = [pc EXCEPT ![p] =
                           IF e = "empty" THEN "empty" ELSE "failed"]
               /\ err' = [err EXCEPT ![p] = IF e = "empty" THEN @ ELSE e]
               /\ rdr' = [rdr EXCEPT ![p] = close_all(r1)]
               /\ tmp' = [tmp EXCEPT ![p] = <<<<>>, <<>>>>]
               /\ onDisk' = odT
               /\ tempDir' = delete_dir(tempDir, odT)
               /\ thr' = Ended(p)
               /\ UNCHANGED scanVars

\* sort.py:242-247  one iteration of the split loop
csv_scan_step(p) ==
    /\ pc[p] = "scan"
    /\ rows[p] # <<>>
    /\ UNCHANGED <<hubVars, tasks, files, exists, mrg, histVars>>
    /\ LET row == Head(rows[p])
           ks == key_columns(rdr[p].header_csv, args.keys)
           e == read_error(row, ks, dtype_len(args.keys, args.ntags))
           odT == [onDisk EXCEPT
                     ![p] = delete_tmp(close_all(rdr[p]), onDisk[p])]
           f == csv_split_flip(buf[p], row, which[p], splitted[p],
                               args.reverse, ks)
           w == write_line(rdr[p].has_header, rdr[p].header_csv, f.which,
                           tmp[p][f.which + 1], row)
       IN
       IF e = "content"
       THEN /\ pc' = [pc EXCEPT ![p] = "failed"]
            /\ err' = [err EXCEPT ![p] = e]
            /\ rdr' = [rdr EXCEPT ![p] = close_all(@)]
            /\ tmp' = [tmp EXCEPT ![p] = <<<<>>, <<>>>>]
            /\ onDisk' = odT
            /\ tempDir' = delete_dir(tempDir, odT)
            /\ thr' = Ended(p)
            /\ UNCHANGED scanVars
       ELSE IF e = "index"
       THEN /\ pc' = [pc EXCEPT ![p] = "failed"]
            /\ err' = [err EXCEPT ![p] = e]
            /\ thr' = Ended(p)
            /\ UNCHANGED <<rdr, tmp, onDisk, tempDir, scanVars>>
       ELSE /\ which' = [which EXCEPT ![p] = f.which]
            /\ splitted' = [splitted EXCEPT ![p] = f.splitted]
            /\ tmp' = [tmp EXCEPT ![p][f.which + 1] = w.content]
            /\ rdr' = [rdr EXCEPT ![p].has_header = w.has_header]
            /\ buf' = [buf EXCEPT ![p] = row]
            /\ rows' = [rows EXCEPT ![p] = Tail(@)]
            /\ UNCHANGED <<pc, onDisk, tempDir, thr, err>>

\* sort.py:178-184, reader.py:213-224  open the tapes and the destination,
\* create the tape generators, read b_buf and c_buf
csv_merge_open(p) ==
    /\ pc[p] = "merge_open"
    /\ rdr' = [rdr EXCEPT ![p].tmp_files = "open", ![p].out_file = "open",
                          ![p].has_header = {}]
    /\ files' = [files EXCEPT ![rdr[p].src_path] = <<>>]
    /\ exists' = exists \cup {rdr[p].src_path}
    /\ UNCHANGED <<hubVars, tasks, tempDir, tmp, onDisk, scanVars, histVars>>
    /\ IF Len(tmp[p][1]) < 2 \/ Len(tmp[p][2]) < 2
       THEN /\ pc' = [pc EXCEPT ![p] = "failed"]
            /\ err' = [err EXCEPT ![p] = "stop"]
            /\ thr' = Ended(p)
            /\ UNCHANGED mrg
       ELSE /\ pc' = [pc EXCEPT ![p] = "merge"]
            /\ mrg' = [mrg EXCEPT ![p] =
                         [b_buf |-> tmp[p][1][2], c_buf |-> tmp[p][2][2],
                          b_await |-> FALSE, c_await |-> FALSE,
                          b_gen |-> SubSeq(tmp[p][1], 3, Len(tmp[p][1])),
                          c_gen |-> SubSeq(tmp[p][2], 3, Len(tmp[p][2]))]]
            /\ UNCHANGED <<thr, err>>

\* sort.py:186-226  one iteration of the merge loop; after the last one
\* close_all and the recursive call of split_series
csv_merge_step(p) ==
    /\ pc[p] = "merge"
    /\ LET ks == key_columns(rdr[p].header_csv, args.keys)
           res == csv_merge_iteration(mrg[p], args.reverse, ks)
           w == write_lines(rdr[p].has_header, rdr[p].header_csv, OutHandle,
                            files[rdr[p].src_path], res.wrote)
           r1 == [rdr[p] EXCEPT !.has_header = w.has_header]
       IN
       /\ files' = [files EXCEPT ![rdr[p].src_path] = w.content]
       /\ IF res.stop
          THEN /\ pc' = [pc EXCEPT ![p] = "call"]
               /\ mrg' = [mrg EXCEPT ![p] = NoMerge]
               /\ rdr' = [rdr EXCEPT ![p] = close_all(r1)]
               /\ passes' = [passes EXCEPT ![p] = Bump(@, MaxPasses)]
          ELSE /\ mrg' = [mrg EXCEPT ![p] = res.m]
               /\ rdr' = [rdr EXCEPT ![p] = r1]
               /\ UNCHANGED <<pc, passes>>
    /\ UNCHANGED <<hubVars, tasks, thr, exists, tempDir, tmp, onDisk,
                   scanVars, err, orig, passIn, doneCount, scans>>

CsvJobNext(p) ==
    \/ open_tmp_check(p)
    \/ csv_open_tmp(p)
    \/ csv_split_open(p)
    \/ csv_scan_step(p)
    \/ scan_end(p)
    \/ csv_merge_open(p)
    \/ csv_merge_step(p)

(* ---------------------------- sort_hub ---------------------------------- *)
\* sort.py:58  dict.fromkeys(src, False)
FromKeys == [k \in Paths |-> IF k \in SrcList THEN "False" ELSE "absent"]

\* reader.py:380-387  _txt_merge: the lines of all sources, in src order
RECURSIVE ConcatSrc(_)
ConcatSrc(k) == IF k = 0 THEN <<>> ELSE ConcatSrc(k - 1) \o files[k]

\* the lines _txt_merge writes before a cast fails (all of them if none does)
Written(lines) ==
    LET ok == {i \in 0..Len(lines) : \A k \in 1..i : CanCast(lines[k])}
        n == CHOOSE i \in ok : \A k \in ok : k <= i
    IN [i \in 1..n |-> Str(Cast(lines[i]))]

\* sort.py:73-76  a single source: split_series runs in the calling thread
HubSingle ==
    /\ hub_pc = "start"
    /\ Total = 1
    /\ tasks' = FromKeys
    /\ rdr' = [rdr EXCEPT ![1] = NewReader(1, args.output)]
    /\ pc' = [pc EXCEPT ![1] = "call"]
    /\ hub_pc' = "sync"
    /\ UNCHANGED <<args, bw, thr, files, exists, tempDir, tmp, onDisk,
                   scanVars, mrg, err, histVars>>

\* sort.py:77-83  several sources, one output: concatenate, then sort the
\* output file in the calling thread
HubCombined ==
    /\ hub_pc = "start"
    /\ Total > 1
    /\ args.output # None
    /\ tasks' = FromKeys
    /\ files' = [files EXCEPT ![args.output] = Written(ConcatSrc(Total))]
    /\ exists' = exists \cup {args.output}
    /\ IF AllCastable(ConcatSrc(Total))
       THEN /\ rdr' = [rdr EXCEPT ![args.output] =
                         NewReader(args.output, None)]
            /\ pc' = [pc EXCEPT ![args.output] = "call"]
            /\ hub_pc' = "sync"
            /\ UNCHANGED tempDir
       ELSE \* reader.py:275-277  tear_down of the merging Reader, raise
            /\ tempDir' = delete_dir(tempDir, onDisk)
            /\ hub_pc' = "raised"
            /\ UNCHANGED <<rdr, pc>>
    /\ orig' = [orig EXCEPT ![args.output] = Written(ConcatSrc(Total))]
    /\ UNCHANGED <<args, bw, thr, tmp, onDisk, scanVars, mrg, err, passIn,
                   passes, doneCount, scans>>

\* sort.py:76, 82-84  the synchronous split_series has returned or raised
HubSyncReturn ==
    /\ hub_pc = "sync"
    /\ pc[Callee] \in {"done", "empty", "failed"}
    /\ hub_pc' = IF pc[Callee] = "failed" THEN "raised" ELSE "returned"
    /\ UNCHANGED <<args, bw, tasks, thr, files, exists, tempDir, pc, rdr,
                   tmp, onDisk, scanVars, mrg, err, histVars>>

\* sort.py:85-88, 47-51  _equals: one Thread per source
HubEquals ==
    /\ hub_pc = "start"
    /\ Total > 1
    /\ args.output = None
    /\ args.nflows = None \/ args.nflows >= Total
    /\ tasks' = [k \in Paths |-> IF k \in SrcList THEN "Thread" ELSE "absent"]
    /\ thr' = [k \in Paths |-> IF k \in SrcList THEN "new" ELSE thr[k]]
    /\ rdr' = [k \in Paths |->
                 IF k \in SrcList THEN NewReader(k, None) ELSE rdr[k]]
    /\ hub_pc' = "bw_start"
    /\ bw' = 1
    /\ UNCHANGED <<args, files, exists, tempDir, pc, tmp, onDisk, scanVars,
                   mrg, err, histVars>>

\* sort.py:89-91  fewer threads than sources: enter the scheduling loop
HubBounded ==
    /\ hub_pc = "start"
    /\ Bounded
    /\ tasks' = FromKeys
    /\ hub_pc' = "loop"
    /\ UNCHANGED <<args, bw, thr, files, exists, tempDir, pc, rdr, tmp,
                   onDisk, scanVars, mrg, err, histVars>>

\* sort.py:91  while not Threads.all_done()
HubLoop ==
    /\ hub_pc = "loop"
    /\ hub_pc' = IF all_done(tasks) THEN "returned" ELSE "fill"
    /\ UNCHANGED <<args, bw, tasks, thr, files, exists, tempDir, pc, rdr,
                   tmp, onDisk, scanVars, mrg, err, histVars>>

\* sort.py:93-105  one iteration of the inner loop: promote a pending job,
\* or leave the loop and call bound_workers
HubFill ==
    /\ hub_pc = "fill"
    /\ IF workers(tasks) < args.nflows /\ get_free(tasks) # None
       THEN LET nxt == get_free(tasks) IN
            /\ tasks' = [tasks EXCEPT ![nxt] = "Thread"]
            /\ thr' = [thr EXCEPT ![nxt] = "new"]
            /\ rdr' = [rdr EXCEPT ![nxt] = NewReader(nxt, None)]
            /\ UNCHANGED <<hub_pc, bw>>
       ELSE /\ hub_pc' = "bw_start"
            /\ bw' = 1
            /\ UNCHANGED <<tasks, thr, rdr>>
    /\ UNCHANGED <<args, files, exists, tempDir, pc, tmp, onDisk, scanVars,
                   mrg, err, histVars>>

\* threads.py:79-81  the start loop: start() of the next Thread entry; a
\* Thread that was started before raises RuntimeError
BwStart ==
    /\ hub_pc = "bw_start"
    /\ LET ks == {k \in bw..Total : tasks[k] = "Thread"} IN
       IF ks = {}
       THEN /\ hub_pc' = "bw_join"
            /\ UNCHANGED <<bw, thr, pc>>
       ELSE IF thr[Min(ks)] = "new"
       THEN /\ thr' = [thr EXCEPT ![Min(ks)] = "alive"]
            /\ pc' = [pc EXCEPT ![Min(ks)] = "call"]
            /\ bw' = Min(ks) + 1
            /\ UNCHANGED hub_pc
       ELSE /\ hub_pc' = "raised"
            /\ UNCHANGED <<bw, thr, pc>>
    /\ UNCHANGED <<args, tasks, files, exists, tempDir, rdr, tmp, onDisk,
                   scanVars, mrg, err, histVars>>

\* threads.py:83-85  the join loop ends when no started thread is alive
BwJoin_no_wait ==
    /\ hub_pc = "bw_join"
    /\ hub_pc' = IF Bounded THEN "loop" ELSE "returned"
    /\ UNCHANGED <<args, bw, tasks, thr, files, exists, tempDir, pc, rdr,
                   tmp, onDisk, scanVars, mrg, err, histVars>>
BwJoin ==
    /\ hub_pc = "bw_join"
    /\ \A k \in SrcList : thr[k] # "alive"
    /\ hub_pc' = IF Bounded THEN "loop" ELSE "returned"
    /\ UNCHANGED <<args, bw, tasks, thr, files, exists, tempDir, pc, rdr,
                   tmp, onDisk, scanVars, mrg, err, histVars>>

\* reader.py:112-117  check_extension passes: the first source is a .txt
\* or .csv file, every other source and the output have its extension
check_extension ==
    /\ args.ext[1] \in {".txt", ".csv"}
    /\ \A k \in (2..Total) \cup (IF args.output # None THEN {args.output}
                                  ELSE {}) :
          args.ext[k] = args.ext[1]

\* sort.py:55, reader.py:112-117  check_extension raises ValueError
HubBadExt ==
    /\ hub_pc = "start"
    /\ ~check_extension
    /\ hub_pc' = "raised"
    /\ UNCHANGED <<args, bw, tasks, thr, files, exists, tempDir, pc, rdr,
                   tmp, onDisk, scanVars, mrg, err, histVars>>

\* reader.py:407-421  _csv_merge after the header was read: the output
\* after the sources 1..k, and whether no header differed
RECURSIVE csv_merge(_, _)
csv_merge(k, header) ==
    IF k = 0 THEN [out |-> <<header>>, ok |-> TRUE]
    ELSE LET prev == csv_merge(k - 1, header) IN
         IF ~prev.ok \/ Len(files[k]) < 2 THEN prev
         ELSE IF Head(files[k]) # header
         THEN [out |-> prev.out, ok |-> FALSE]
         ELSE [out |-> prev.out \o Tail(files[k]), ok |-> TRUE]

\* sort.py:77-83, reader.py:389-421  several .csv sources, one output
HubCombinedCsv ==
    /\ hub_pc = "start"
    /\ Total > 1
    /\ args.output # None
    /\ tasks' = FromKeys
    /\ UNCHANGED <<args, bw, thr, tempDir, tmp, onDisk, scanVars, mrg, err,
                   passIn, passes, doneCount, scans>>
    /\ IF Len(files[1]) < 2
       THEN \* reader.py:403-405  next() of the DictReader of src[0]:
            \* StopIteration
            /\ hub_pc' = "raised"
            /\ UNCHANGED <<files, exists, rdr, pc, orig>>
       ELSE LET res == csv_merge(Total, Head(files[1])) IN
            /\ files' = [files EXCEPT ![args.output] = res.out]
            /\ exists' = exists \cup {args.output}
            /\ orig' = [orig EXCEPT ![args.output] = res.out]
            /\ IF res.ok
               THEN /\ rdr' = [rdr EXCEPT ![args.output] =
                                 NewReader(args.output, None)]
                    /\ pc' = [pc EXCEPT ![args.output] = "call"]
                    /\ hub_pc' = "sync"
               ELSE \* reader.py:415-417  ValueError: different headers
                    /\ hub_pc' = "raised"
                    /\ UNCHANGED <<rdr, pc>>

(* ------------------------ specifications -------------------------------- *)
\* the files a scheduled job sorts: empty, ill-typed, one run, two runs
HubFiles == {<<>>, <<BadLine>>, <<1>>, <<2, 1>>}

\* a 13-record input on which the default order needs five merge passes
LongInput == <<5, 3, 6, 2, 8, 13, 12, 1, 11, 10, 9, 7, 4>>

Lines == (0..MaxVal) \cup {AltBase + 1}
SeqsUpTo(S, n) == UNION {[1..k -> S] : k \in 0..n}
SortFiles == SeqsUpTo(Lines, MaxLen) \cup {LongInput}

StaleLine == MaxVal

InitCommon ==
    /\ hub_pc = "start"
    /\ bw = 1
    /\ tasks = [k \in Paths |-> "absent"]
    /\ thr = [k \in Paths |-> "none"]
    /\ tempDir = FALSE
    /\ pc = [k \in Paths |-> "idle"]
    /\ rdr = [k \in Paths |-> NewReader(None, None)]
    /\ tmp = [k \in Paths |-> <<<<>>, <<>>>>]
    /\ onDisk = [k \in Paths |-> FALSE]
    /\ rows = [k \in Paths |-> <<>>]
    /\ buf = [k \in Paths |-> None]
    /\ which = [k \in Paths |-> 0]
    /\ splitted = [k \in Paths |-> FALSE]
    /\ mrg = [k \in Paths |-> NoMerge]
    /\ err = [k \in Paths |-> "none"]
    /\ passIn = [k \in Paths |-> <<>>]
    /\ passes = [k \in Paths |-> 0]
    /\ doneCount = [k \in Paths |-> 0]
    /\ scans = [k \in Paths |-> 0]

\* the disk before sort_hub: every source exists; the output path is absent
\* or holds a stale line
InitDisk(n, srcFiles) ==
    /\ \E old \in BOOLEAN :
         /\ exists = (1..n) \cup (IF old /\ args.output # None
                                  THEN {OutPath} ELSE {})
         /\ \E f \in [1..n -> srcFiles] :
              files = [k \in Paths |->
                         IF k \in 1..n THEN f[k]
                         ELSE IF k = OutPath /\ old /\ args.output # None
                         THEN <<StaleLine>> ELSE <<>>]

\* sort_hub over 1..NJobs sources
Init ==
    /\ InitCommon
    /\ \E n \in 1..NJobs, o \in {None, OutPath}, r \in BOOLEAN,
          nf \in {None} \cup (1..(NJobs - 1)) :
         /\ nf # None => (n > 1 /\ o = None /\ nf < n)
         /\ args = [n |-> n, output |-> o, nflows |-> nf, reverse |-> r]
         /\ InitDisk(n, HubFiles)
    /\ orig = [k \in Paths |-> IF k \in SrcList THEN files[k] ELSE <<>>]

Next ==
    \/ HubSingle
    \/ HubCombined
    \/ HubSyncReturn
    \/ HubEquals
    \/ HubBounded
    \/ HubLoop
    \/ HubFill
    \/ BwStart
    \/ BwJoin
    \/ \E p \in Paths : JobNext(p)

Spec == Init /\ [][Next]_vars

\* sort_hub over a single source, every file of up to MaxLen lines
InitSort ==
    /\ InitCommon
    /\ \E o \in {None, OutPath}, r \in BOOLEAN :
         /\ args = [n |-> 1, output |-> o, nflows |-> None, reverse |-> r]
         /\ InitDisk(1, SortFiles)
    /\ orig = [k \in Paths |-> IF k \in SrcList THEN files[k] ELSE <<>>]

NextSort ==
    \/ HubSingle
    \/ HubSyncReturn
    \/ JobNext(1)

SpecSort == InitSort /\ [][NextSort]_vars

\* the calling thread keeps running until split_series returns or raises
FairSort == SpecSort /\ WF_vars(NextSort)

\* the column names of .csv headers; ColZ is in no header
ColId == 11
ColV == 12
ColW == 13
ColZ == 19
Header2 == <<ColId, ColV>>
Header3 == <<ColId, ColV, ColW>>

\* the data rows of a two-column file: the field of ColId is any text, the
\* field of ColV is the number of the row
RowSeqs ==
    {[i \in DOMAIN k |-> <<k[i], i>>] : k \in SeqsUpTo(0..MaxKey, MaxRows)}

\* a file of five rows, two pairs of them with the same ColId
CsvLong == <<Header2, <<2, 1>>, <<1, 2>>, <<3, 3>>, <<2, 4>>, <<3, 5>>>>

\* a three-column file
CsvWide == <<Header3, <<2, 1, 1>>, <<1, 2, 1>>>>

\* the .csv files a single job sorts: no line, a header and up to MaxRows
\* rows, three columns
CsvFiles == {<<>>, CsvWide, CsvLong} \cup {<<Header2>> \o rs : rs \in RowSeqs}

\* the .csv files of the combined path
CsvHubFiles == {<<>>, <<Header2>>, <<Header2, <<2, 1>>, <<1, 2>>>>, CsvWide}

\* the keys argument: not supplied, one or two columns, a missing column
KeyArgs == {<<>>, <<ColId>>, <<ColId, ColV>>, <<ColZ>>}

\* the extensions of the paths: all .csv, or one path with another one
ExtArgs(n) ==
    {[k \in Paths |-> ".csv"]}
        \cup {[k \in Paths |-> IF k = b THEN ".dat" ELSE ".csv"] : b \in 0..n}

\* sort_hub over .csv files: a single source, or several sources and one
\* output; one type tag with no keys (the tags are then inferred) is left out
InitCsv ==
    /\ InitCommon
    /\ \E n \in 1..(NJobs - 1), o \in {None, OutPath}, r \in BOOLEAN,
          ky \in KeyArgs, nt \in 1..Len(Header3) :
       \E x \in ExtArgs(n) :
         /\ n > 1 => o # None
         /\ ~(nt = 1 /\ ky = <<>>)
         /\ (o = None) => x[OutPath] = ".csv"
         /\ args = [n |-> n, output |-> o, nflows |-> None, reverse |-> r,
                     ext |-> x, keys |-> ky, ntags |-> nt]
         /\ exists = 1..n
         /\ \E f \in [1..n -> IF n = 1 THEN CsvFiles ELSE CsvHubFiles] :
              files = [k \in Paths |-> IF k \in 1..n THEN f[k] ELSE <<>>]
    /\ orig = [k \in Paths |-> IF k \in SrcList THEN files[k] ELSE <<>>]

NextCsv ==
    \/ HubBadExt
    \/ check_extension /\ HubSingle
    \/ check_extension /\ HubCombinedCsv
    \/ HubSyncReturn
    \/ \E p \in {OutPath, 1} : CsvJobNext(p)

SpecCsv == InitCsv /\ [][NextCsv]_vars

(* --------------------------- properties --------------------------------- *)
Sorted(recs, r) ==
    \A i \in 1..(Len(recs) - 1) :
        IF r THEN recs[i] >= recs[i + 1] ELSE recs[i] <= recs[i + 1]

BagOf(s) ==
    [v \in {s[i] : i \in DOMAIN s} |-> Cardinality({i \in DOMAIN s : s[i] = v})]

\* the file that holds the job's result: rdr.src_path is the output path
\* once an output path was given
Result(p) == files[rdr[p].src_path]

RECURSIVE CeilLog2(_)
CeilLog2(n) == IF n <= 1 THEN 0 ELSE 1 + CeilLog2((n + 1) \div 2)

HubEnded == hub_pc \in {"returned", "raised"}
GoodSource(k) == orig[k] # <<>> /\ AllCastable(orig[k])

\* C1  Sortedness: when a job has completed, every adjacent pair (x, y) of
\* its result satisfies x <= y, or x >= y when reverse is set.
C1_Sortedness ==
    \A p \in Paths :
        pc[p] = "done" =>
            /\ AllCastable(Result(p))
            /\ Sorted(CastAll(Result(p)), args.reverse)

\* Scenario A: the lines 3, 1, 2 have been sorted into 1, 2, 3
C1_Witness ==
    /\ pc[1] = "done"
    /\ orig[1] = <<3, 1, 2>>
    /\ ~args.reverse
    /\ Result(1) = <<1, 2, 3>>

\* C2  Conservation: the records a merge pass has written are the records
\* of the pass's input, and the records of a completed job's result are
\* the records of its original input, as multisets.
C2_Conservation ==
    \A p \in Paths :
        /\ (pc[p] = "call" /\ passes[p] > 0) =>
              BagOf(CastAll(Result(p))) = BagOf(CastAll(passIn[p]))
        /\ pc[p] = "done" =>
              BagOf(CastAll(Result(p))) = BagOf(CastAll(orig[p]))

\* a job of MaxLen records with a repeated value is done after two passes
C2_Witness ==
    /\ pc[1] = "done"
    /\ passes[1] = 2
    /\ Len(orig[1]) = MaxLen
    /\ \E i, k \in DOMAIN orig[1] : i # k /\ orig[1][i] = orig[1][k]

\* C3  Termination: a job over a non-empty well-typed source eventually
\* performs a split with no run break and stops.
C3_Termination ==
    GoodSource(1) => <>(pc[1] = "done" /\ ~splitted[1])

\* a job has stopped after merge passes, its last scan found no break
C3_Witness ==
    /\ pc[1] = "done"
    /\ ~splitted[1]
    /\ passes[1] >= 1
    /\ args.reverse

\* C4  Pass bound: a job over n records performs at most ceil(log2(n))
\* merge passes.
C4_PassBound ==
    \A p \in Paths : passes[p] <= CeilLog2(Len(orig[p]))

\* C5  Concurrency bound: with a bound N below the number of jobs, at most
\* N entries of the status table hold a thread.
C5_ConcurrencyBound ==
    Bounded =>
        Cardinality({k \in Paths : tasks[k] = "Thread"}) <= args.nflows

\* N = 2 threads are running at the same moment
C5_Witness ==
    /\ Bounded
    /\ args.nflows = 2
    /\ Cardinality({k \in Paths : thr[k] = "alive"}) = 2

\* C6  Bounded-pool liveness, as the final state it requires: with every
\* source non-empty and well-typed, the bounded scheduler ends only by
\* returning, with every job done.
C6_BoundedLiveness ==
    (Bounded /\ HubEnded /\ \A k \in SrcList : GoodSource(k)) =>
        /\ hub_pc = "returned"
        /\ \A k \in SrcList : tasks[k] = "True"

\* C7  Every entry reaches done: when sort_hub returns, the entry of every
\* submitted source is done and was set to done exactly once.
C7_EveryEntryDone ==
    hub_pc = "returned" =>
        \A k \in SrcList : tasks[k] = "True" /\ doneCount[k] = 1

\* C8  Done is monotonic: an entry that is done stays done.
C8_DoneMonotonic ==
    [][\A k \in Paths : tasks[k] = "True" => tasks'[k] = "True"]_vars

\* a job is done while a later batch of the bounded scheduler is running
C8_Witness ==
    /\ Bounded
    /\ tasks[1] = "True"
    /\ \E k \in SrcList : thr[k] = "alive" /\ pc[k] = "scan"

\* C9  Error isolation: after a content-type mismatch in one job, every
\* sibling with a non-empty well-typed source is still run and done when
\* the scheduler ends.
C9_ErrorIsolation ==
    (/\ HubEnded
     /\ Total > 1 /\ args.output = None
     /\ \A k \in SrcList : thr[k] # "alive" /\ err[k] # "nofile"
     /\ \E k \in SrcList : err[k] = "content") =>
        \A k \in SrcList : GoodSource(k) => tasks[k] = "True"

\* C10  Empty input: a job over an empty source ends without error, merge
\* pass or tape, and its entry is done.
C10_EmptyInput ==
    \A p \in Paths :
        pc[p] = "empty" =>
            /\ err[p] = "none"
            /\ passes[p] = 0
            /\ ~onDisk[p]
            /\ tasks[p] = "True"

\* the records split_series computes are the records the job leaves
SortFunctionAgrees ==
    \A p \in Paths :
        (pc[p] = "done" /\ passes[p] < MaxPasses) =>
            CastAll(Result(p)) = split_series_records(orig[p], args.reverse)

\* C11  Content-mismatch teardown: the step in which a job fails with a
\* content-type mismatch leaves the job failed, its tapes deleted, its
\* handles closed, and the temp directory removed if no tape is left in it.
C11_ContentTeardown ==
    [][\A p \in Paths :
         (err[p] = "none" /\ err'[p] = "content") =>
            /\ pc'[p] = "failed"
            /\ ~onDisk'[p]
            /\ rdr'[p].tmp_files # "open"
            /\ rdr'[p].out_file = "none"
            /\ (\A q \in Paths : ~onDisk'[q]) => ~tempDir']_vars

\* Scenario E: a text line after a well-typed one has failed the job, after
\* the first record was written to a tape
C11_Witness ==
    /\ pc[1] = "failed"
    /\ err[1] = "content"
    /\ Len(orig[1]) >= 2
    /\ CanCast(orig[1][1])
    /\ ~onDisk[1]
    /\ ~tempDir

\* the path a single job's result belongs in
Dest == IF args.output = None THEN 1 ELSE args.output

\* C12  Output placement: when a single job has completed, the source path
\* (no output path given) or the output path (given; it exists now) holds
\* the records of the source in the requested order.
C12_OutputPlacement ==
    (Total = 1 /\ pc[1] = "done") =>
        /\ Dest \in exists
        /\ AllCastable(files[Dest])
        /\ Sorted(CastAll(files[Dest]), args.reverse)
        /\ BagOf(CastAll(files[Dest])) = BagOf(CastAll(orig[1]))

\* the first split found no break and tape 0 was copied to the output path
C12_Witness ==
    /\ pc[1] = "done"
    /\ args.output = OutPath
    /\ passes[1] = 0
    /\ Len(orig[1]) = 3
    /\ files[1] = orig[1]
    /\ files[OutPath] = CastAll(orig[1])

InOrder(p) == GoodSource(p) /\ Sorted(CastAll(orig[p]), args.reverse)

\* C13  Idempotence: for a source already in the requested order the first
\* split leaves splitted false, no merge pass starts, and the completed
\* job's records are the source's records in the same sequence; sorting the
\* result of any completed sort again yields the same record sequence.
C13_Idempotence ==
    \A p \in Paths :
        /\ InOrder(p) =>
              /\ ~splitted[p]
              /\ pc[p] \notin {"merge_open", "merge"}
              /\ passes[p] = 0
              /\ pc[p] = "done" => CastAll(Result(p)) = CastAll(orig[p])
        /\ pc[p] = "done" =>
              split_series_records(Result(p), args.reverse)
                  = CastAll(Result(p))

\* a descending source of MaxLen records with a repeated value was sorted
\* with reverse set
C13_Witness ==
    /\ pc[1] = "done"
    /\ args.reverse
    /\ Len(orig[1]) = MaxLen
    /\ orig[1][1] > orig[1][MaxLen]
    /\ \E i \in 1..(MaxLen - 1) : orig[1][i] = orig[1][i + 1]
    /\ InOrder(1)
    /\ Result(1) = orig[1]

\* C14  Single-run short-circuit: a job over a non-empty well-typed source
\* without a run break completes, after one scan and no merge pass.
C14_ShortCircuit ==
    InOrder(1) =>
        /\ <>(pc[1] = "done" /\ scans[1] = 1 /\ passes[1] = 0)
        /\ [](scans[1] <= 1 /\ passes[1] = 0)

\* a sequence of equal records was completed by one scan
C14_Witness ==
    /\ pc[1] = "done"
    /\ scans[1] = 1
    /\ passes[1] = 0
    /\ Len(orig[1]) = 3
    /\ \A i \in DOMAIN orig[1] : orig[1][i] = 2

(* ------------------------ properties, .csv ------------------------------ *)
CsvJobs == {OutPath, 1}
CsvData(lines) == IF lines = <<>> THEN <<>> ELSE Tail(lines)
Reverse(sq) == [i \in DOMAIN sq |-> sq[Len(sq) + 1 - i]]
KeysOf(rws, ks) == [i \in DOMAIN rws |-> to_yield(rws[i], ks)]

\* the key columns of job p, from the header of its source
KeyCols(p) == key_columns(Head(orig[p]), args.keys)

\* a requested key column is in no column of the source's header
MissingKey(p) ==
    /\ orig[p] # <<>>
    /\ \E j \in DOMAIN args.keys :
          \A i \in DOMAIN orig[p][1] : orig[p][1][i] # args.keys[j]

CsvSorted(rws, r, ks) ==
    \A i \in 1..(Len(rws) - 1) :
        IF r THEN list_le(to_yield(rws[i + 1], ks), to_yield(rws[i], ks))
        ELSE list_le(to_yield(rws[i], ks), to_yield(rws[i + 1], ks))

\* a completed .csv job leaves its rows sorted by key, the rows of its
\* source, as split_series computes them
CsvSortAgrees ==
    \A p \in CsvJobs :
        pc[p] = "done" =>
            /\ CsvSorted(CsvData(Result(p)), args.reverse, KeyCols(p))
            /\ BagOf(CsvData(Result(p))) = BagOf(CsvData(orig[p]))
            /\ CsvData(Result(p)) =
                  csv_split_series_rows(CsvData(orig[p]), args.reverse,
                                        KeyCols(p))

\* the rows split_series leaves for the source of job p in the order that
\* was not requested, reversed
OtherOrderReversed(p) ==
    Reverse(csv_split_series_rows(CsvData(orig[p]), ~args.reverse, KeyCols(p)))

\* C15  Reverse symmetry, as stated: the rows a completed job leaves are
\* the rows the sort in the opposite order leaves, reversed.
C15_ReverseSymmetry ==
    \A p \in CsvJobs :
        pc[p] = "done" => CsvData(Result(p)) = OtherOrderReversed(p)

\* C15  Reverse symmetry, amended: the key sequence of the rows a completed
\* job leaves is the key sequence of the rows the sort in the opposite
\* order leaves, reversed; the rows themselves are the same sequence when
\* no two rows have the same key.
C15_ReverseSymmetryKeys ==
    \A p \in CsvJobs :
        pc[p] = "done" =>
            /\ KeysOf(CsvData(Result(p)), KeyCols(p))
                  = KeysOf(OtherOrderReversed(p), KeyCols(p))
            /\ (\A i, k \in 2..Len(orig[p]) :
                   i # k => to_yield(orig[p][i], KeyCols(p))
                              # to_yield(orig[p][k], KeyCols(p)))
                 => CsvData(Result(p)) = OtherOrderReversed(p)

\* rows with a repeated key were sorted with reverse set, after a merge
\* pass: the keys agree with the reversed ascending sort, the rows do not
C15_Witness ==
    /\ pc[1] = "done"
    /\ args.reverse
    /\ passes[1] >= 1
    /\ args.keys = <<ColId>>
    /\ CsvData(Result(1)) # OtherOrderReversed(1)
    /\ KeysOf(CsvData(Result(1)), KeyCols(1))
          = KeysOf(OtherOrderReversed(1), KeyCols(1))

\* the number of key columns of job p: the supplied keys, or every column
NumKeyCols(p) ==
    IF args.keys = <<>> THEN Len(orig[p][1]) ELSE Len(args.keys)

\* C16  Type-tag count check: a job whose tag count is neither one nor the
\* number of key columns has, once it asked for its first row, failed with
\* the configuration error.
C16_TagCountCheck ==
    \A p \in CsvJobs :
        (/\ orig[p] # <<>>
         /\ args.ntags # 1
         /\ args.ntags # NumKeyCols(p)
         /\ pc[p] \notin {"idle", "call", "open", "opened"}) =>
            pc[p] = "failed" /\ err[p] = "config"

\* C17  Configuration errors precede all I/O: the step that raises the
\* tag-count error or the extension error starts in a state where the
\* temp directory and the tapes of the job do not exist, no file of the
\* job is open and the job is not marked running.
C17_ConfigBeforeIO ==
    [][/\ \A p \in CsvJobs :
            (err[p] = "none" /\ err'[p] = "config") =>
                /\ ~tempDir
                /\ ~onDisk[p]
                /\ rdr[p].tmp_files = "none"
                /\ tasks[p] # "Thread"
       /\ (hub_pc = "start" /\ hub_pc' = "raised" /\ ~check_extension) =>
            /\ ~tempDir
            /\ \A p \in Paths : ~onDisk[p] /\ pc[p] = "idle"
            /\ \A p \in Paths : tasks[p] = "absent"]_vars

\* C18  Missing key: a job with a requested key column that is not in the
\* header of its source has, once it asked for its first row, failed, with
\* its handles closed, its tapes deleted and the temp directory removed.
C18_MissingKey ==
    \A p \in CsvJobs :
        (MissingKey(p) /\ pc[p] \notin {"idle", "call", "open", "opened"}) =>
            /\ pc[p] = "failed"
            /\ ~onDisk[p]
            /\ rdr[p].tmp_files # "open"
            /\ rdr[p].out_file = "none"
            /\ ~tempDir

\* the first line of a file is the header h and no other line is
HeaderOnce(content, h) ==
    content # <<>> =>
        /\ content[1] = h
        /\ \A i \in 2..Len(content) : content[i] # h

\* C19  Header once: each tape of a job, the file its merge pass writes
\* and its final output hold, when they hold any line, the header as
\* their first line and nowhere else; a completed job's result has it.
C19_HeaderOnce ==
    \A p \in CsvJobs :
        pc[p] \in {"scan", "merge_open", "merge", "call", "open", "opened",
                   "done"} =>
            /\ HeaderOnce(tmp[p][1], orig[p][1])
            /\ HeaderOnce(tmp[p][2], orig[p][1])
            /\ HeaderOnce(files[rdr[p].src_path], orig[p][1])
            /\ pc[p] = "scan" => Len(tmp[p][1]) >= 2
            /\ pc[p] = "done" => Len(Result(p)) = Len(orig[p])

\* Scenario C after two merge passes: the result holds the header and
\* MaxRows rows
C19_Witness ==
    /\ pc[1] = "done"
    /\ passes[1] = 2
    /\ args.keys = <<ColId>>
    /\ Len(Result(1)) = MaxRows + 1
    /\ Result(1)[1] = Header2

\* the data rows of the sources 1..k, in src order
RECURSIVE UnionRows(_)
UnionRows(k) ==
    IF k = 0 THEN <<>> ELSE UnionRows(k - 1) \o CsvData(orig[k])

\* C20  Combined output: with several sources of one header, well-typed
\* or without rows, and one output path, sort_hub returns after one job,
\* run in the calling thread over the output path, and the output holds
\* the rows of all sources, sorted.
C20_CombinedOutput ==
    (/\ Total > 1 /\ args.output # None
     /\ HubEnded
     /\ check_extension
     /\ ~count_mismatch(args.keys, args.ntags)
     /\ dtype_len(args.keys, args.ntags) = Len(key_columns(Header2, args.keys))
     /\ \A k \in SrcList :
           /\ orig[k] # <<>> => orig[k][1] = Header2
           /\ ~MissingKey(k)) =>
        /\ hub_pc = "returned"
        /\ \A k \in SrcList : pc[k] = "idle" /\ thr[k] = "none"
        /\ thr[OutPath] = "none"
        /\ CsvSorted(CsvData(files[OutPath]), args.reverse,
                     key_columns(Header2, args.keys))
        /\ BagOf(CsvData(files[OutPath])) = BagOf(UnionRows(Total))

(* ------------------- properties of the scheduler ------------------------ *)
\* sort_hub took the path of _equals: several sources, no output, no bound
\* below the number of sources
Unbounded == Total > 1 /\ args.output = None /\ ~Bounded

\* C21  Unbounded path barrier: in the path of _equals every source has a
\* thread of its own, every one of them has been started when the start
\* loop is over, and sort_hub returns only when each of them has ended.
C21_UnboundedBarrier ==
    Unbounded =>
        /\ hub_pc \in {"bw_start", "bw_join", "returned"} =>
              \A k \in SrcList : thr[k] \in {"new", "alive", "dead"}
        /\ hub_pc \in {"bw_join", "returned"} =>
              \A k \in SrcList : thr[k] \in {"alive", "dead"}
        /\ hub_pc = "returned" => \A k \in SrcList : thr[k] = "dead"

\* the threads of all NJobs sources are running at the same moment
C21_Witness ==
    /\ Unbounded
    /\ Total = NJobs
    /\ hub_pc = "bw_join"
    /\ \A k \in SrcList : thr[k] = "alive" /\ pc[k] = "scan"

\* C22  Batch barrier: in the bounded path, a step that promotes a pending
\* job to a thread starts in a state where no thread is running, and at
\* most N threads are running at any moment.
C22_BatchBarrier ==
    [][Bounded =>
         /\ (\E k \in SrcList : tasks[k] = "False" /\ tasks'[k] = "Thread") =>
               \A q \in SrcList : thr[q] # "alive"
         /\ Cardinality({q \in SrcList : thr'[q] = "alive"}) <= args.nflows]_vars

\* a second batch has been formed after the first batch of two jobs ended
C22_Witness ==
    /\ Bounded
    /\ args.nflows = 2
    /\ tasks[1] = "True" /\ tasks[2] = "True"
    /\ tasks[3] = "Thread"
    /\ thr[3] = "new"

\* the jobs of the invocation: the sources, or the output path when several
\* sources are sorted into one output
Jobs == IF Total > 1 /\ args.output # None THEN {OutPath} ELSE SrcList

\* C23  Cleanup on completion: when every job of the invocation has
\* completed without error, no tape of any job is on disk and the temp
\* directory is gone.
C23_Cleanup ==
    (\A k \in Jobs : pc[k] \in {"done", "empty"}) =>
        /\ \A q \in Paths : ~onDisk[q]
        /\ ~tempDir

\* NJobs threads have run at the same time and all have completed
C23_Witness ==
    /\ Unbounded
    /\ Total = NJobs
    /\ \A k \in SrcList : pc[k] = "done" /\ thr[k] = "dead"
    /\ \E k \in SrcList : Len(orig[k]) = 2
    /\ ~tempDir

(* --------------------- properties of the splitter ----------------------- *)
\* the positions of s whose record is out of order against its predecessor
Breaks(s, r) ==
    {i \in 2..Len(s) : IF r THEN s[i - 1] < s[i] ELSE s[i - 1] > s[i]}

\* the number of the natural run that holds position i of s
RunOf(s, r, i) == 1 + Cardinality({j \in Breaks(s, r) : j <= i})

NumRuns(s, r) == IF s = <<>> THEN 0 ELSE 1 + Cardinality(Breaks(s, r))

\* the records of s at the positions in I, in the order of s
Pick(s, I) ==
    LET idx == [k \in 1..Cardinality(I) |->
                  CHOOSE i \in I : Cardinality({j \in I : j < i}) = k - 1]
    IN [k \in 1..Cardinality(I) |-> s[idx[k]]]

\* the records of the natural runs of s with an odd (t = 0) or an even
\* (t = 1) number
RunsOnTape(s, r, t) ==
    Pick(s, {i \in DOMAIN s : RunOf(s, r, i) % 2 = 1 - t})

\* the records of the pass that the split loop has read so far
Scanned(p) ==
    CastAll(SubSeq(passIn[p], 1, Len(passIn[p]) - Len(rows[p])))

\* C24  Run routing: during and after a split scan tape 0 holds the 1st,
\* 3rd, ... natural runs of the records read so far and tape 1 the 2nd,
\* 4th, ..., each in input order; the current tape is the one of the last
\* run; splitted is set iff the records read have a run break; equal
\* neighbours are no break.
C24_RunRouting ==
    \A p \in Paths :
        pc[p] \in {"scan", "merge_open"} =>
            LET s == Scanned(p) IN
            /\ tmp[p][1] = RunsOnTape(s, args.reverse, 0)
            /\ tmp[p][2] = RunsOnTape(s, args.reverse, 1)
            /\ which[p] = (RunOf(s, args.reverse, Len(s)) + 1) % 2
            /\ splitted[p] <=> Breaks(s, args.reverse) # {}

\* 3 | 2 2 | 1: three runs, the third one back on tape 0, no flip between
\* equal records
C24_Witness ==
    /\ pc[1] = "merge_open"
    /\ ~args.reverse
    /\ passIn[1] = <<3, 2, 2, 1>>
    /\ tmp[1] = <<<<3, 1>>, <<2, 2>>>>
    /\ which[1] = 0

\* C25  Tape partition: when a split scan has read its whole input, the
\* two tapes together hold exactly the records of that input, each as often
\* as the input holds it, and nothing of an earlier pass.
C25_TapePartition ==
    \A p \in Paths :
        (pc[p] = "merge_open" \/ (pc[p] = "scan" /\ rows[p] = <<>>)) =>
            /\ BagOf(tmp[p][1] \o tmp[p][2]) = BagOf(CastAll(passIn[p]))
            /\ Len(tmp[p][1]) + Len(tmp[p][2]) = Len(passIn[p])

\* the scan of the second pass has ended, on tapes the first pass had filled
C25_Witness ==
    /\ pc[1] = "scan"
    /\ rows[1] = <<>>
    /\ passes[1] = 1
    /\ orig[1] = <<3, 1, 2, 1>>
    /\ tmp[1][2] # <<>>

(* ---------------------- properties of the merger ------------------------ *)
\* the position of the first record of tape that is out of order against
\* its predecessor, Len(tape) + 1 when tape is one natural run
RunEnd(tape, r) ==
    IF Breaks(tape, r) = {} THEN Len(tape) + 1
    ELSE CHOOSE i \in Breaks(tape, r) : \A j \in Breaks(tape, r) : i <= j

\* the records a step has appended to the destination of job p
Appended(p) ==
    SubSeq(files'[rdr[p].src_path], Len(files[rdr[p].src_path]) + 1,
           Len(files'[rdr[p].src_path]))

\* C26  Await drain stops at the run boundary: a merge iteration that
\* starts with an await flag set writes the buffered record of the other
\* tape and the records after it up to the first one that is out of order
\* against its predecessor on that tape, and leaves that one buffered; it
\* writes the whole rest of the tape only when no such record is left.
C26_DrainStopsAtBoundary ==
    [][\A p \in Paths :
         (pc[p] = "merge" /\ (mrg[p].b_await \/ mrg[p].c_await)
             /\ mrg'[p] # mrg[p]) =>
            LET m == mrg[p]
                tape == IF m.b_await THEN <<m.c_buf>> \o CastAll(m.c_gen)
                        ELSE <<m.b_buf>> \o CastAll(m.b_gen)
                e == RunEnd(tape, args.reverse)
                nbuf == IF m.b_await THEN mrg'[p].c_buf ELSE mrg'[p].b_buf
            IN IF e <= Len(tape)
               THEN /\ Appended(p) = SubSeq(tape, 1, e - 1)
                    /\ nbuf = tape[e]
                    /\ pc'[p] = "merge"
               ELSE /\ Len(Appended(p)) >= Len(tape)
                    /\ SubSeq(Appended(p), 1, Len(tape)) = tape]_vars

\* C27  Stability: in the result of a completed .csv job, two different
\* rows with equal keys stand in the order in which the source holds them.
C27_Stability ==
    \A p \in CsvJobs :
        pc[p] = "done" =>
            LET res == CsvData(Result(p))
                src == CsvData(orig[p])
                ks == KeyCols(p)
            IN \A i, j \in DOMAIN res :
                  (i < j /\ res[i] # res[j]
                         /\ to_yield(res[i], ks) = to_yield(res[j], ks)) =>
                     \E a, b \in DOMAIN src :
                        a < b /\ src[a] = res[i] /\ src[b] = res[j]

\* x stands before y, or is equal to it, in the requested order
InOrderPair(x, y, r) == IF r THEN x >= y ELSE x <= y

\* C28  Compare step: a merge iteration that starts with neither await flag
\* set writes b when b is in order before c, and c otherwise. When the
\* written tape has a next record, only the written record is appended, the
\* next record is buffered, the other tape is untouched, and the await flag
\* of the written tape is set exactly when the next record is out of order
\* against the written one. When the written tape is exhausted, the
\* buffered record and the whole rest of the other tape follow and the
\* merge ends. An iteration that starts with an await flag set writes the
\* buffered record of the other tape first and leaves the waiting tape
\* untouched.
C28_CompareStep ==
    [][\A p \in Paths :
         (pc[p] = "merge" /\ mrg'[p] # mrg[p]) =>
            LET m == mrg[p]
                n == mrg'[p]
                fav == InOrderPair(m.b_buf, m.c_buf, args.reverse)
                w == IF fav THEN m.b_buf ELSE m.c_buf
                wgen == IF fav THEN m.b_gen ELSE m.c_gen
                obuf == IF fav THEN m.c_buf ELSE m.b_buf
                ogen == IF fav THEN m.c_gen ELSE m.b_gen
            IN
            IF m.b_await
            THEN /\ Head(Appended(p)) = m.c_buf
                 /\ pc'[p] = "merge" => n.b_buf = m.b_buf /\ n.b_gen = m.b_gen
            ELSE IF m.c_await
            THEN /\ Head(Appended(p)) = m.b_buf
                 /\ pc'[p] = "merge" => n.c_buf = m.c_buf /\ n.c_gen = m.c_gen
            ELSE IF wgen = <<>>
            THEN /\ Appended(p) = <<w, obuf>> \o CastAll(ogen)
                 /\ pc'[p] = "call"
            ELSE /\ Appended(p) = <<w>>
                 /\ pc'[p] = "merge"
                 /\ (IF fav THEN n.b_buf ELSE n.c_buf) = Cast(Head(wgen))
                 /\ (IF fav THEN n.b_gen ELSE n.c_gen) = Tail(wgen)
                 /\ (IF fav THEN n.c_buf ELSE n.b_buf) = obuf
                 /\ (IF fav THEN n.c_gen ELSE n.b_gen) = ogen
                 /\ (IF fav THEN n.b_await ELSE n.c_await)
                       <=> ~InOrderPair(w, Cast(Head(wgen)), args.reverse)
                 /\ ~(IF fav THEN n.c_await ELSE n.b_await)]_vars

\* 2 | 1 3 | 1: the compare steps wrote 1 from tape 1 and 2 from tape 0;
\* the next record of tape 0 is out of order, so b_await is set
C28_Witness ==
    /\ pc[1] = "merge"
    /\ ~args.reverse
    /\ orig[1] = <<2, 1, 3, 1>>
    /\ Result(1) = <<1, 2>>
    /\ mrg[1].b_await /\ ~mrg[1].c_await
    /\ mrg[1].b_buf = 1 /\ mrg[1].c_buf = 3

(* ------------------- properties of the pass order ----------------------- *)
\* the counts of split scans and of merge passes at each position of job p
Alternates(p) ==
    /\ pc[p] \in {"call", "open"} => scans[p] = passes[p]
    /\ pc[p] \in {"scan", "merge_open", "merge", "done", "empty"} =>
          scans[p] = passes[p] + 1
    /\ pc[p] = "idle" => scans[p] = 0 /\ passes[p] = 0

\* C29  Pass ordering: split scans and merge passes of a job alternate,
\* the first pass being a split; a merge is entered only from the end of a
\* scan that set splitted; the job completes, its tapes deleted, only from
\* the end of a scan that left splitted unset; a completed job takes no
\* further step; a split after a merge reads the file that merge wrote.
C29_PassOrdering ==
    [][\A p \in Paths :
         /\ Alternates(p) /\ Alternates(p)'
         /\ (pc'[p] = "scan" /\ pc[p] # "scan") =>
               /\ pc[p] = "open"
               /\ passIn'[p] = files[rdr[p].src_path]
               /\ passes[p] > 0 => rdr'[p].src_path = rdr[p].src_path
         /\ (pc'[p] = "merge_open" /\ pc[p] # "merge_open") =>
               pc[p] = "scan" /\ rows[p] = <<>> /\ splitted[p]
         /\ (pc'[p] = "merge" /\ pc[p] # "merge") => pc[p] = "merge_open"
         /\ pc[p] = "merge" =>
               /\ pc'[p] \in {"merge", "call"}
               /\ rdr'[p].src_path = rdr[p].src_path
         /\ (pc[p] = "call" /\ passes[p] > 0) =>
               /\ pc'[p] \in {"call", "open"}
               /\ rdr'[p].src_path = rdr[p].src_path
               /\ files'[rdr[p].src_path] = files[rdr[p].src_path]
         /\ (pc[p] = "open" /\ passes[p] > 0) =>
               files'[rdr[p].src_path] = files[rdr[p].src_path]
         /\ (pc'[p] = "done" /\ pc[p] # "done") =>
               /\ pc[p] = "scan" /\ rows[p] = <<>> /\ ~splitted[p]
               /\ ~onDisk'[p]
               /\ tasks'[p] = "True"
         /\ pc[p] = "done" =>
               /\ pc'[p] = "done"
               /\ scans'[p] = scans[p] /\ passes'[p] = passes[p]
               /\ files' = files /\ tmp'[p] = tmp[p]
               /\ mrg'[p] = mrg[p] /\ rdr'[p] = rdr[p]]_vars

\* a job has completed after three split scans and two merge passes
C29_Witness ==
    /\ pc[1] = "done"
    /\ scans[1] = 3
    /\ passes[1] = 2
    /\ hub_pc = "returned"

\* C30  Run progress: when a merge pass has ended, the file it wrote has
\* fewer natural runs than the input of the split scan before it.
C30_RunProgress ==
    \A p \in Paths :
        (pc[p] = "call" /\ passes[p] > 0) =>
            /\ NumRuns(CastAll(passIn[p]), args.reverse) > 1
            /\ NumRuns(CastAll(Result(p)), args.reverse)
                  < NumRuns(CastAll(passIn[p]), args.reverse)

\* 3 | 2 | 1 has been merged into 2 3 | 1: three runs have become two
C30_Witness ==
    /\ pc[1] = "call"
    /\ passes[1] = 1
    /\ ~args.reverse
    /\ passIn[1] = <<3, 2, 1>>
    /\ Result(1) = <<2, 3, 1>>

(* ------------------ properties of the shared directory ------------------ *)
\* C31  Temp directory race freedom: a job that has passed the check of
\* open_tmp_w and is about to open its tapes finds the temp directory in
\* place, and no job has failed because the directory was missing.
C31_TempDirRaceFree ==
    \A p \in Paths :
        /\ pc[p] = "open" => tempDir
        /\ ~(pc[p] = "failed" /\ err[p] = "nofile")

(* -------------------- properties of the status table -------------------- *)
\* the entry of job p in Threads.tasks is True
MarkedDone(p) == tasks[p] = "True"

\* the job marked done has left its records in order and its tapes deleted
Finished(p) ==
    /\ pc[p] = "done"
    /\ AllCastable(Result(p))
    /\ Sorted(CastAll(Result(p)), args.reverse)
    /\ BagOf(CastAll(Result(p))) = BagOf(CastAll(orig[p]))
    /\ ~onDisk[p]
    /\ tmp[p] = <<<<>>, <<>>>>

\* C32  Done implies finished: a job whose entry in the status table is
\* done has its result in the requested order, holding exactly the records
\* of its input, and its tapes deleted; the entry becomes done only in the
\* step that ends a scan which found no run break.
C32_DoneImpliesFinished ==
    [][\A p \in Paths :
         /\ MarkedDone(p) => Finished(p)
         /\ MarkedDone(p)' => Finished(p)'
         /\ (MarkedDone(p)' /\ ~MarkedDone(p)) =>
               /\ pc[p] = "scan"
               /\ rows[p] = <<>>
               /\ ~splitted[p]
               /\ Breaks(CastAll(passIn[p]), args.reverse) = {}]_vars

\* in a run of NJobs threads, a job that needed a merge pass is marked done
\* while a sibling is still scanning
C32_Witness ==
    /\ Total = NJobs
    /\ MarkedDone(1)
    /\ orig[1] = <<2, 1>>
    /\ Result(1) = <<1, 2>>
    /\ passes[1] = 1
    /\ \E k \in SrcList : pc[k] = "scan" /\ thr[k] = "alive"

(* ------------------ properties of the source and output ----------------- *)
\* C33  Source untouched with an output path: while a single job runs with
\* an output path, the source file keeps its content and no step writes a
\* file other than the output path; a merge pass has the output path as its
\* destination; the first split reads the source and every later split
\* reads the output path.
C33_SourceUntouched ==
    [][(Total = 1 /\ args.output # None) =>
         /\ files[1] = orig[1]
         /\ files'[1] = orig[1]
         /\ \A q \in Paths \ {args.output} : files'[q] = files[q]
         /\ pc[1] \in {"merge_open", "merge"} =>
               rdr[1].src_path = args.output
         /\ (pc[1] = "merge" /\ mrg'[1] # mrg[1]) =>
               /\ Len(files'[args.output]) > Len(files[args.output])
               /\ rdr'[1].src_path = args.output
         /\ (pc[1] = "open" /\ pc'[1] = "scan") =>
               passIn'[1] = IF scans[1] = 0 THEN files[1]
                            ELSE files[args.output]]_vars

\* the second split is reading what the first merge wrote to the output
\* path, and the source is as it was
C33_Witness ==
    /\ args.output = OutPath
    /\ pc[1] = "scan"
    /\ scans[1] = 2
    /\ orig[1] = <<3, 2, 1>>
    /\ files[1] = <<3, 2, 1>>
    /\ passIn[1] = <<2, 3, 1>>
    /\ files[OutPath] = <<2, 3, 1>>

(* ------------------- properties of the merge loop ----------------------- *)
\* C34  Merge precondition: a job that is about to open its tapes for a
\* merge has at least one record on each of them, no job has failed on
\* reading the first record of a tape, and a merge in progress has started
\* with a record buffered from each tape.
C34_MergePrecondition ==
    \A p \in Paths :
        /\ pc[p] = "merge_open" => tmp[p][1] # <<>> /\ tmp[p][2] # <<>>
        /\ ~(pc[p] = "failed" /\ err[p] = "stop")
        /\ pc[p] = "merge" =>
              /\ tmp[p][1] # <<>> /\ tmp[p][2] # <<>>
              /\ mrg[p].b_buf # None /\ mrg[p].c_buf # None

\* the second merge pass of a job has read its first record of each tape
C34_Witness ==
    /\ pc[1] = "merge"
    /\ passes[1] = 1
    /\ Result(1) = <<>>
    /\ orig[1] = <<3, 2, 1>>
    /\ mrg[1].b_buf = 2 /\ mrg[1].c_buf = 1
    /\ mrg[1].b_gen = <<3>> /\ mrg[1].c_gen = <<>>

\* C35  Await flags are mutually exclusive: at the start of every merge
\* iteration at most one of b_await and c_await is set, and an iteration
\* that starts with a flag set either ends the merge or leaves both flags
\* clear.
C35_AwaitExclusive ==
    [][\A p \in Paths :
         /\ pc[p] = "merge" => ~(mrg[p].b_await /\ mrg[p].c_await)
         /\ pc'[p] = "merge" => ~(mrg'[p].b_await /\ mrg'[p].c_await)
         /\ (pc[p] = "merge" /\ (mrg[p].b_await \/ mrg[p].c_await)
                /\ mrg'[p] # mrg[p]) =>
               \/ pc'[p] = "call"
               \/ /\ pc'[p] = "merge"
                  /\ ~mrg'[p].b_await
                  /\ ~mrg'[p].c_await]_vars

\* the 13-line source in descending order: b_await was set when 8 followed
\* 3 on tape 0; the drain has written 2 of tape 1 and stopped at 13, with
\* both flags clear and the merge going on
C35_Witness ==
    /\ pc[1] = "merge"
    /\ args.reverse
    /\ passIn[1] = LongInput
    /\ Result(1) = <<6, 5, 3, 2>>
    /\ mrg[1].b_buf = 8 /\ mrg[1].c_buf = 13
    /\ ~mrg[1].b_await /\ ~mrg[1].c_await

====
